---- MODULE Spec2Model ----
(***************************************************************************)
(* A model of qsubgisom/qsubgisom.py: the construction of the quantum      *)
(* subgraph-isomorphism ansatz and its parameter post-processing.          *)
(*                                                                         *)
(* Every public (and the claimed private) function of the module is a      *)
(* pure function of its arguments. The state holds one call: the function  *)
(* called, its arguments, and the outcome. Init draws the arguments from   *)
(* bounded sets; one action per function applies it.                       *)
(*                                                                         *)
(* Conventions                                                             *)
(*   - an outcome is [status |-> "ok", value |-> v] or                     *)
(*     [status |-> "error", error |-> e, at |-> place];                    *)
(*   - a numpy array of rank 2 is [shape |-> <<r, c>>, rows |-> <<...>>];  *)
(*   - matrix entries are fixed-point numbers in tenths (10 is 1.0);       *)
(*   - an angle is an integer count of units of pi/AngleDen, so pi is      *)
(*     AngleDen units; a probability is a count of units of 1/AngleDen.    *)
(***************************************************************************)
EXTENDS Integers, Sequences, FiniteSets, TLC

VARIABLES fn, args, result, prev, calls, prob

vars == <<fn, args, result, prev, calls, prob>>

(***************************************************************************)
(* Bounds of the model.                                                    *)
(***************************************************************************)
MaxReg == 4
MaxEdges == 2
MaxEncSide == 2
MaxAnsatzLog == 2
MaxPerm == 3
HalfDen == 2
MaxTurns == 3
MaxHalfTurns == 2
MaxLen == 2
MaxN == 2
MaxSeed == 1
MaxCalls == 2

(***************************************************************************)
(* Program constants.                                                      *)
(***************************************************************************)
S4_BLOCK_PARCOUNT == 5

None == [none |-> TRUE]
\* shape=None of _adj_flatten_repr: a shape with no dimensions.
NoShape == <<>>
NotCalled == [status |-> "not_called"]

Ok(v) == [status |-> "ok", value |-> v]
Err(e, where) == [status |-> "error", error |-> e, at |-> where]
IsOk(r) == r.status = "ok"
IsErr(r) == r.status = "error"

Min(a, b) == IF a <= b THEN a ELSE b
Abs(a) == IF a < 0 THEN -a ELSE a

RECURSIVE Pow2(_)
Pow2(k) == IF k = 0 THEN 1 ELSE 2 * Pow2(k - 1)

RECURSIVE FlattenSeq(_)
FlattenSeq(ss) == IF ss = <<>> THEN <<>> ELSE Head(ss) \o FlattenSeq(Tail(ss))

(***************************************************************************)
(* Registers and qubits.                                                   *)
(***************************************************************************)
QuantumRegister(size, name) == [name |-> name, size |-> size]
Qubit(qreg, k) == [reg |-> qreg.name, idx |-> k]
RegQubits(qreg) == [k \in 1..qreg.size |-> Qubit(qreg, k - 1)]

\* qreg[i] for a Python integer index: negative indices count from the end.
RegIndexOk(qreg, i) == -qreg.size <= i /\ i < qreg.size
RegAt(qreg, i) == Qubit(qreg, IF i < 0 THEN i + qreg.size ELSE i)

(***************************************************************************)
(* _map_qreg: np.vectorize(lambda i: qreg[i]) over the index array.        *)
(* np.vectorize refuses an array with no elements (otypes is not set).     *)
(***************************************************************************)
_map_qreg(array, qreg) ==
    IF array.shape[1] * array.shape[2] = 0
    THEN Err("ValueError", "_map_qreg")
    ELSE IF \E r \in 1..Len(array.rows) : \E c \in 1..Len(array.rows[r]) :
               ~RegIndexOk(qreg, array.rows[r][c])
    THEN Err("IndexError", "_map_qreg")
    ELSE Ok([r \in 1..Len(array.rows) |->
               [c \in 1..Len(array.rows[r]) |-> RegAt(qreg, array.rows[r][c])]])

(***************************************************************************)
(* _expand_topology. A topology is [str |-> name] or [array |-> a], with a *)
(* an integer array [shape, rows] of any rank.                             *)
(***************************************************************************)
IsStr(topology) == "str" \in DOMAIN topology

\* np.arange(size - 1), then np.stack([v, v + 1]).T
LinearPairs(size) ==
    LET n == IF size - 1 > 0 THEN size - 1 ELSE 0
    IN  [shape |-> <<n, 2>>, rows |-> [k \in 1..n |-> <<k - 1, k>>]]

\* Mutation: the wrap-around pair is appended whatever the register size.
NamedTopologyAlwaysWrap(name, size) ==
    LET v == LinearPairs(size)
    IN  IF name = "circular"
        THEN [shape |-> <<v.shape[1] + 1, 2>>, rows |-> Append(v.rows, <<size - 1, 0>>)]
        ELSE v

NamedTopology(name, size) ==
    LET v == LinearPairs(size)
    IN  IF name = "circular" /\ size > 2
        THEN [shape |-> <<v.shape[1] + 1, 2>>, rows |-> Append(v.rows, <<size - 1, 0>>)]
        ELSE v

_expand_topology(topology, qreg) ==
    IF IsStr(topology) /\ topology.str \notin {"linear", "circular"}
    THEN Err("ValueError: Unrecognized topology", "_expand_topology")
    ELSE LET t == IF IsStr(topology) THEN NamedTopology(topology.str, qreg.size)
                  ELSE topology.array
         IN  IF ~(Len(t.shape) = 2 /\ t.shape[2] = 2)
             THEN Err("AssertionError", "_expand_topology")
             ELSE _map_qreg(t, qreg)

(***************************************************************************)
(* Gates. An operation of a circuit is [label, qs, body]: qs the qubits it *)
(* acts on, in order; body the angle of an elementary gate (<<>> for none, *)
(* <<p, sign>> for parameter p or its negation), the operations of a       *)
(* composite gate, or the diagonal of a diagonal gate.                     *)
(***************************************************************************)
Gate(label, qs, body) == [label |-> label, qs |-> qs, body |-> body]
Phi(p) == <<p, 1>>

\* _hcph(phi, qc, qubits): ctrl is -1 when qubits is a single index.
_hcph(phi, ctrl, target) ==
    << Gate("h", <<target>>, <<>>),
       IF ctrl >= 0 THEN Gate("cp", <<ctrl, target>>, Phi(phi))
                    ELSE Gate("p", <<target>>, Phi(phi)),
       Gate("h", <<target>>, <<>>) >>

\* _s4_block on the local qubits 0 and 1; params is one flattened row.
_s4_block(params) ==
    IF Len(params) # S4_BLOCK_PARCOUNT
    THEN Err("AssertionError", "_s4_block")
    ELSE Ok(_hcph(params[1], -1, 0)
            \o << Gate("h", <<1>>, <<>>),
                  Gate("p", <<1>>, Phi(params[2])),
                  Gate("cp", <<0, 1>>, Phi(params[3])),
                  Gate("h", <<1>>, <<>>) >>
            \o _hcph(params[4], 1, 0)
            \o _hcph(params[5], 0, 1))

\* qc.compose(other, qubits=q): other's k-th qubit becomes q[k].
MapGate(g, q) == Gate(g.label, [k \in 1..Len(g.qs) |-> q[g.qs[k] + 1]], g.body)
MapGates(gs, q) == [k \in 1..Len(gs) |-> MapGate(gs[k], q)]

\* The position (from 0) of qubit q among qubits.
IndexOf(q, qubits) == (CHOOSE k \in 1..Len(qubits) : qubits[k] = q) - 1

CircQubits(qregs) == FlattenSeq([k \in 1..Len(qregs) |-> RegQubits(qregs[k])])

\* qc.to_gate(label=): one gate over all of qc's qubits; its definition is
\* qc's operations, over the gate's own qubit positions.
to_gate(qc, label) ==
    LET qubits == CircQubits(qc.qregs)
    IN  Gate(label, qubits,
             [k \in 1..Len(qc.ops) |->
                Gate(qc.ops[k].label,
                     [l \in 1..Len(qc.ops[k].qs) |-> IndexOf(qc.ops[k].qs[l], qubits)],
                     qc.ops[k].body)])

\* qc.compose(other, qubits=, front=): other's operations, its k-th qubit
\* mapped to qubits[k], before (front) or after qc's own.
compose(qc, other, qubits, front) ==
    LET mapped == [k \in 1..Len(other.ops) |->
                     Gate(other.ops[k].label,
                          [l \in 1..Len(other.ops[k].qs) |->
                             qubits[IndexOf(other.ops[k].qs[l], CircQubits(other.qregs)) + 1]],
                          other.ops[k].body)]
    IN  [qregs |-> qc.qregs,
         ops |-> IF front THEN mapped \o qc.ops ELSE qc.ops \o mapped]

\* params_tensor(shape): the symbols t[0], t[1], ... reshaped row-major.
params_tensor(r, c) ==
    [shape |-> <<r, c>>,
     rows |-> [i \in 1..r |-> [j \in 1..c |-> (i - 1) * c + (j - 1)]]]

ResolveQreg(qreg) ==
    IF "int" \in DOMAIN qreg THEN QuantumRegister(qreg.int, "q") ELSE qreg.reg

\* Mutation: every block is built from the first row of parameters.
S4BlocksFirstRow(rows, pairs) ==
    [k \in 1..Min(Len(rows), Len(pairs)) |-> MapGates(_s4_block(rows[1]).value, pairs[k])]

\* zip(params, topology): one block per pair, in topology order.
S4Blocks(rows, pairs) ==
    [k \in 1..Min(Len(rows), Len(pairs)) |-> MapGates(_s4_block(rows[k]).value, pairs[k])]

(***************************************************************************)
(* s4_ansatz(topology, qreg=, params=).                                    *)
(***************************************************************************)
s4_ansatz(topology, qregArg, paramsArg) ==
    LET qreg == ResolveQreg(qregArg)
        topo == _expand_topology(topology, qreg)
    IN  IF IsErr(topo) THEN topo
        ELSE
        LET pairs == topo.value
            params == IF paramsArg = None
                      THEN params_tensor(Len(pairs), S4_BLOCK_PARCOUNT)
                      ELSE paramsArg
        IN  IF ~(Len(params.shape) = 2 /\ params.shape[2] = S4_BLOCK_PARCOUNT)
            THEN Err("AssertionError", "s4_ansatz:params.shape")
            ELSE IF params.shape[1] # Len(pairs)
            THEN Err("AssertionError", "s4_ansatz:len(params)")
            ELSE IF \E k \in 1..Len(pairs) : pairs[k][1] = pairs[k][2]
            THEN Err("CircuitError", "s4_ansatz:compose")
            ELSE LET qc == [qregs |-> <<qreg>>,
                            ops |-> FlattenSeq(S4Blocks(params.rows, pairs))]
                     qc_ == [qregs |-> <<qreg>>, ops |-> <<>>]
                 IN  Ok([circuit |-> compose(qc_, [qregs |-> <<qreg>>,
                                                   ops |-> <<to_gate(qc, "PermAnsatz")>>],
                                             RegQubits(qreg), FALSE),
                         params |-> params])

(***************************************************************************)
(* Matrix validation.                                                      *)
(***************************************************************************)
RECURSIVE PopCount(_)
PopCount(v) == IF v = 0 THEN 0 ELSE (v % 2) + PopCount(v \div 2)

\* bin(v).count("1") == 1 or v == 0
_is_pow_2(v) == (PopCount(v) = 1) \/ (v = 0)

_pow2_shaped_mat_validation(mat) ==
    IF Len(mat.shape) # 2 THEN Err("AssertionError", "_pow2_shaped_mat_validation:ndim")
    ELSE IF mat.shape[1] # mat.shape[2]
    THEN Err("AssertionError", "_pow2_shaped_mat_validation:square")
    ELSE IF ~(_is_pow_2(mat.shape[1]) /\ _is_pow_2(mat.shape[2]))
    THEN Err("AssertionError", "_pow2_shaped_mat_validation:pow2")
    ELSE Ok(mat)

(***************************************************************************)
(* The diagonal encoder.                                                   *)
(***************************************************************************)
\* np.round of a number given in tenths: to the nearest integer, a tie to
\* the even one.
Round(x) ==
    LET q == x \div 10
        r == x % 10
    IN  IF r < 5 THEN q
        ELSE IF r > 5 THEN q + 1
        ELSE IF q % 2 = 0 THEN q ELSE q + 1

\* np.round(adj) != 0
RoundNonZero(adj) ==
    [shape |-> adj.shape,
     rows |-> [r \in 1..Len(adj.rows) |->
                 [c \in 1..Len(adj.rows[r]) |-> Round(adj.rows[r][c]) # 0]]]

\* Mutation: the matrix is copied into the bottom-right block.
_mat_zero_ext_bottom_right(mat, shape) ==
    IF \E d \in 1..2 : shape[d] < mat.shape[d] /\ mat.shape[d] # 1
    THEN Err("ValueError", "_mat_zero_ext")
    ELSE Ok([shape |-> shape,
             rows |-> [r \in 1..shape[1] |->
                         [c \in 1..shape[2] |->
                            IF r > shape[1] - mat.shape[1] /\ c > shape[2] - mat.shape[2]
                            THEN mat.rows[r - (shape[1] - mat.shape[1])]
                                         [c - (shape[2] - mat.shape[2])]
                            ELSE FALSE]]])

\* ret = np.zeros(shape); ret[:r, :c] = mat. The assignment broadcasts mat
\* to the slice, which fails unless each dimension of mat fits or is 1.
_mat_zero_ext(mat, shape) ==
    IF \E d \in 1..2 : shape[d] < mat.shape[d] /\ mat.shape[d] # 1
    THEN Err("ValueError", "_mat_zero_ext")
    ELSE Ok([shape |-> shape,
             rows |-> [r \in 1..shape[1] |->
                         [c \in 1..shape[2] |->
                            IF r <= mat.shape[1] /\ c <= mat.shape[2]
                            THEN mat.rows[r][c] ELSE FALSE]]])

\* Mutation: the parity test is off by one.
_circ_qregs_even(n) ==
    IF n % 2 # 0 THEN Err("AssertionError", "_circ_qregs")
    ELSE LET m == (n - 1) \div 2
         IN  Ok(<< QuantumRegister(m, "i"), QuantumRegister(m, "j"),
                   QuantumRegister(1, "a") >>)

\* (n + 1) % 2 == 0; m = (n - 1) // 2; registers i, j of size m and a of size 1.
_circ_qregs(n) ==
    IF (n + 1) % 2 # 0 THEN Err("AssertionError", "_circ_qregs")
    ELSE LET m == (n - 1) \div 2
         IN  Ok(<< QuantumRegister(m, "i"), QuantumRegister(m, "j"),
                   QuantumRegister(1, "a") >>)

\* The library's Diagonal(diag): len(diag) must be 2^q with q >= 1; the gate
\* acts on q qubits.
RECURSIVE Log2(_)
Log2(len) == IF len <= 1 THEN 0 ELSE 1 + Log2(len \div 2)

Diagonal(diag) ==
    IF Len(diag) < 2 \/ Pow2(Log2(Len(diag))) # Len(diag)
    THEN Err("CircuitError", "Diagonal")
    ELSE Ok([num_qubits |-> Log2(Len(diag)), diag |-> diag])

\* np.exp(1j * bit * np.pi)
Phase(bit) == IF bit THEN -1 ELSE 1

_adj_flatten_repr(adjArg, shape) ==
    LET adj0 == RoundNonZero(adjArg)
    IN  IF ~(Len(adj0.shape) = 2 /\ adj0.shape[1] = adj0.shape[2])
        THEN Err("AssertionError", "_adj_flatten_repr:square")
        ELSE
        LET ext == IF shape = NoShape THEN Ok(adj0) ELSE _mat_zero_ext(adj0, shape)
        IN  IF IsErr(ext) THEN ext
            ELSE IF ~_is_pow_2(ext.value.shape[1])
            THEN Err("AssertionError", "_adj_flatten_repr:pow2")
            ELSE
            LET flat == FlattenSeq(ext.value.rows)
                bits == [k \in 1..Len(flat) |-> FALSE] \o flat
                adj == Diagonal([k \in 1..Len(bits) |-> Phase(bits[k])])
            IN  IF IsErr(adj) THEN adj
                ELSE
                LET regs == _circ_qregs(adj.value.num_qubits)
                IN  IF IsErr(regs) THEN regs
                    ELSE Ok([qregs |-> regs.value,
                             ops |-> << Gate("QAdj", CircQubits(regs.value),
                                             adj.value.diag) >>])

(***************************************************************************)
(* The ansatz assembler.                                                   *)
(***************************************************************************)
\* circuit.inverse(): the operations in reverse order, each one inverted.
InvLabel(label) ==
    CASE label = "PermAnsatz" -> "PermAnsatz_dg"
      [] label = "PermAnsatz_dg" -> "PermAnsatz"
      [] OTHER -> label

RECURSIVE InverseOps(_)
InverseGate(g) ==
    IF g.label \in {"h"} THEN g
    ELSE IF g.label \in {"p", "cp"} THEN Gate(g.label, g.qs, <<g.body[1], -g.body[2]>>)
    ELSE Gate(InvLabel(g.label), g.qs, InverseOps(g.body))
InverseOps(ops) == [k \in 1..Len(ops) |-> InverseGate(ops[Len(ops) + 1 - k])]

inverse(qc) == [qregs |-> qc.qregs, ops |-> InverseOps(qc.ops)]

\* _qc_block(qc, label): qc wrapped as one labelled gate on its own registers.
_qc_block(qc, label) ==
    compose([qregs |-> qc.qregs, ops |-> <<>>],
            [qregs |-> qc.qregs, ops |-> <<to_gate(qc, label)>>],
            CircQubits(qc.qregs), FALSE)

\* h_layer: h on the first n qubits of i and of j, then on a.
HLayerOps(qregs, n) ==
    [k \in 1..n |-> Gate("h", <<Qubit(qregs[1], k - 1)>>, <<>>)]
    \o [k \in 1..n |-> Gate("h", <<Qubit(qregs[2], k - 1)>>, <<>>)]
    \o << Gate("h", <<Qubit(qregs[3], 0)>>, <<>>) >>

\* Mutation: the inverse ansatz is prepended whatever the shapes.
AssembleAlwaysInverse(qc0, qregs, h_layer, perm_qc, gisom, qadj2) ==
    LET dg == _qc_block(inverse(perm_qc), "PermAnsatzDg")
        qc1 == compose(qc0, dg, RegQubits(qregs[1]), TRUE)
        qc2 == compose(qc1, dg, RegQubits(qregs[2]), TRUE)
        qc3 == compose(qc2, h_layer, CircQubits(qregs), TRUE)
        qc4 == compose(qc3, perm_qc, RegQubits(qregs[1]), FALSE)
        qc5 == compose(qc4, perm_qc, RegQubits(qregs[2]), FALSE)
        qc6 == compose(qc5, qadj2, CircQubits(qregs), FALSE)
    IN  compose(qc6, h_layer, CircQubits(qregs), FALSE)

\* Lines 209-228: the compositions, in program order.
Assemble(qc0, qregs, h_layer, perm_qc, gisom, qadj2) ==
    LET dg == _qc_block(inverse(perm_qc), "PermAnsatzDg")
        qc1 == IF gisom THEN qc0 ELSE compose(qc0, dg, RegQubits(qregs[1]), TRUE)
        qc2 == IF gisom THEN qc1 ELSE compose(qc1, dg, RegQubits(qregs[2]), TRUE)
        qc3 == compose(qc2, h_layer, CircQubits(qregs), TRUE)
        qc4 == compose(qc3, perm_qc, RegQubits(qregs[1]), FALSE)
        qc5 == compose(qc4, perm_qc, RegQubits(qregs[2]), FALSE)
        qc6 == compose(qc5, qadj2, CircQubits(qregs), FALSE)
    IN  compose(qc6, h_layer, CircQubits(qregs), FALSE)

ansatz(adj1Arg, adj2Arg, topology) ==
    LET v1 == _pow2_shaped_mat_validation(adj1Arg)
        v2 == _pow2_shaped_mat_validation(adj2Arg)
    IN  IF IsErr(v1) THEN v1
        ELSE IF IsErr(v2) THEN v2
        ELSE
        LET adj1 == v1.value
            adj2 == v2.value
        IN  IF ~(adj2.shape[1] <= adj1.shape[1])
            THEN Err("AssertionError", "ansatz:len(adj2) <= len(adj1)")
            ELSE
            LET gisom == adj1.shape = adj2.shape
                qc == _adj_flatten_repr(adj1, NoShape)
            IN  IF IsErr(qc) THEN qc
                ELSE
                LET num_qubits == Len(CircQubits(qc.value.qregs))
                    qregs == _circ_qregs(num_qubits).value
                IN  \* int(np.log2(0)) is int(-inf)
                    IF adj2.shape[1] = 0 THEN Err("OverflowError", "ansatz:n")
                    ELSE
                    LET n == Log2(adj2.shape[1])
                    IN  \* h on an empty list of qubits is refused by the library
                        IF n = 0 THEN Err("CircuitError", "ansatz:h_layer")
                        ELSE
                        LET h_layer == [qregs |-> qregs, ops |-> HLayerOps(qregs, n)]
                            perm == s4_ansatz(topology, [reg |-> qregs[1]], None)
                        IN  IF IsErr(perm) THEN perm
                            ELSE
                            LET qadj2 == _adj_flatten_repr(adj2, adj1.shape)
                            IN  IF IsErr(qadj2) THEN qadj2
                                ELSE Ok([circuit |->
                                           Assemble(qc.value, qregs, h_layer,
                                                    perm.value.circuit, gisom,
                                                    qadj2.value),
                                         params |-> perm.value.params])

(***************************************************************************)
(* Parameter post-processing.                                              *)
(***************************************************************************)
AngleDen == 2 * HalfDen
Pi == AngleDen

\* Mutation: the integer part is not reduced modulo 2.
thetas_to_prob_no_parity(x) ==
    LET a == Abs(x)
        frac == a % AngleDen
        whole == a \div AngleDen
    IN  Abs(frac - AngleDen * whole)

\* x / pi, abs, modf, integer part mod 2, |fractional - integer part|;
\* x in units of pi/AngleDen, the result in units of 1/AngleDen.
thetas_to_prob(x) ==
    LET a == Abs(x)
        frac == a % AngleDen
        whole == a \div AngleDen
    IN  Abs(frac - AngleDen * (whole % 2))

\* The k-th number (from 0) of the stream of np.random.default_rng(seed), in
\* units of 1/AngleDen: a fixed function of the seed, in [0, 1).
Stream(seed, k) == (3 * seed + (k * (k + 1)) \div 2 + k * seed) % AngleDen

\* rng.uniform(size=(n, len)): the stream laid out row-major.
Uniform(seed, n, len) ==
    [i \in 1..n |-> [j \in 1..len |-> Stream(seed, (i - 1) * len + (j - 1))]]

\* Mutation: the comparison is not strict.
SnapInclusive(draw, p) == IF draw <= p THEN Pi ELSE 0

\* (prob < v) * np.pi
Snap(draw, p) == IF draw < p THEN Pi ELSE 0

IsDict(v) == v.kind = "dict"

\* sample_exact_thetas(v, n=, seed=) with the draws prob_ of this call.
sample_exact_thetas(v, n, prob_) ==
    LET p == [j \in 1..Len(v.values) |-> thetas_to_prob(v.values[j])]
        out == [i \in 1..n |-> [j \in 1..Len(p) |-> Snap(prob_[i][j], p[j])]]
    IN  \* dkeys is bound only on the dict branch (line 255)
        IF ~IsDict(v) THEN Err("UnboundLocalError", "sample_exact_thetas:dkeys")
        ELSE Ok([i \in 1..n |-> [kind |-> "dict", keys |-> v.keys, values |-> out[i]]])

\* np.nonzero(mat): the coordinates of the non-zero entries, row-major.
Nonzero(mat) ==
    LET cells == FlattenSeq([r \in 1..mat.shape[1] |->
                               [c \in 1..mat.shape[2] |-> <<r - 1, c - 1>>]])
    IN  SelectSeq(cells, LAMBDA rc : mat.rows[rc[1] + 1][rc[2] + 1] # 0)

\* mat[:, np.argsort(mat[0])] on a sequence of columns <<top, bottom>>.
RECURSIVE SortByTop(_)
SortByTop(cols) ==
    IF cols = <<>> THEN <<>>
    ELSE LET k == CHOOSE k \in 1..Len(cols) :
                    \A l \in 1..Len(cols) :
                       cols[k][1] < cols[l][1] \/ (cols[k][1] = cols[l][1] /\ k <= l)
         IN  <<cols[k]>> \o SortByTop(SubSeq(cols, 1, k - 1) \o SubSeq(cols, k + 1, Len(cols)))

\* Mutation: the test of the inverse flag is reversed.
perm_to_2line_flipped(mat, inverse_) ==
    LET nz == Nonzero(mat)
        cols == [k \in 1..Len(nz) |->
                   IF inverse_ THEN <<nz[k][2], nz[k][1]>> ELSE <<nz[k][1], nz[k][2]>>]
        sorted == SortByTop(cols)
    IN  [shape |-> <<2, Len(sorted)>>,
         rows |-> << [k \in 1..Len(sorted) |-> sorted[k][1]],
                     [k \in 1..Len(sorted) |-> sorted[k][2]] >>]

perm_to_2line(mat, inverse_) ==
    LET nz == Nonzero(mat)
        cols == [k \in 1..Len(nz) |->
                   IF inverse_ THEN <<nz[k][1], nz[k][2]>> ELSE <<nz[k][2], nz[k][1]>>]
        sorted == SortByTop(cols)
    IN  [shape |-> <<2, Len(sorted)>>,
         rows |-> << [k \in 1..Len(sorted) |-> sorted[k][1]],
                     [k \in 1..Len(sorted) |-> sorted[k][2]] >>]

(***************************************************************************)
(* The arguments the calls are drawn from.                                 *)
(***************************************************************************)
SeqsUpTo(S, n) == UNION {[1..k -> S] : k \in 0..n}

Array2(rows, c) == [shape |-> <<Len(rows), c>>, rows |-> rows]

\* Topologies: the two keywords, an unknown keyword, explicit pair arrays,
\* and two arrays of the wrong form (an empty list, a 3-column array).
PairPool == { <<0, 1>>, <<1, 2>>, <<2, 0>>, <<-1, 0>>, <<0, 0>> }
Topologies ==
    {[str |-> s] : s \in {"linear", "circular", "star"}}
    \cup {[array |-> Array2(rows, 2)] : rows \in SeqsUpTo(PairPool, MaxEdges)}
    \cup {[array |-> [shape |-> <<0>>, rows |-> <<>>]],
          [array |-> Array2(<< <<0, 1, 2>> >>, 3)]}

QregArgs ==
    {[int |-> n] : n \in 0..MaxReg}
    \cup {[reg |-> QuantumRegister(n, "i")] : n \in 0..MaxReg}

\* A caller's parameter tensor: numbers that differ from entry to entry.
CallerTensor(r, c) ==
    [shape |-> <<r, c>>,
     rows |-> [i \in 1..r |-> [j \in 1..c |-> 100 + (i - 1) * c + (j - 1)]]]
ParamArgs ==
    {None}
    \cup {CallerTensor(r, c) : r \in 0..(MaxEdges + 1),
                               c \in (S4_BLOCK_PARCOUNT - 1)..(S4_BLOCK_PARCOUNT + 1)}
    \cup {[shape |-> <<S4_BLOCK_PARCOUNT>>,
           rows |-> [j \in 1..S4_BLOCK_PARCOUNT |-> 100 + j]]}

\* Weighted adjacency matrices: every edge of a 0/1 pattern carries the
\* same weight (in tenths).
Weights == {5, 6, 10, -10}
WeightedMats(side) ==
    {[shape |-> <<side, side>>,
      rows |-> [r \in 1..side |-> [c \in 1..side |-> IF b[r][c] = 1 THEN w ELSE 0]]] :
        b \in [1..side -> [1..side -> {0, 1}]], w \in Weights}
EncoderMats == UNION {WeightedMats(side) : side \in 0..MaxEncSide}
EncoderShapes ==
    {NoShape}
    \cup {<<m, m>> : m \in 0..(2 * MaxEncSide)}
    \cup {<<m, 2 * m>> : m \in 1..(2 * MaxEncSide)}

\* Graphs for the assembler: the empty graph, the cycle and the complete
\* graph on side vertices, and a matrix that is not square.
GraphMat(kind, side) ==
    [shape |-> <<side, IF kind = "rect" THEN side + 1 ELSE side>>,
     rows |-> [r \in 1..side |->
                 [c \in 1..(IF kind = "rect" THEN side + 1 ELSE side) |->
                    CASE kind = "cycle" ->
                           IF (c - r) % side = 1 \/ (r - c) % side = 1 THEN 10 ELSE 0
                      [] kind = "complete" -> IF r # c THEN 10 ELSE 0
                      [] OTHER -> 0]]]
AnsatzMats ==
    {GraphMat(kind, side) : kind \in {"empty", "cycle", "complete", "rect"},
                            side \in 0..Pow2(MaxAnsatzLog)}
AnsatzTopologies ==
    {[str |-> s] : s \in {"linear", "circular", "star"}}
    \cup {[array |-> Array2(<< <<1, 0>> >>, 2)]}

\* Angles: multiples of pi/AngleDen for thetas_to_prob, multiples of pi/2
\* for the sampler.
Angles == (-(MaxTurns * AngleDen))..(MaxTurns * AngleDen)
SampleAngles == {h * HalfDen : h \in 0..MaxHalfTurns}
Keys == <<"t0", "t1", "t2", "t3", "t4">>
SampleValues ==
    {[kind |-> "dict", keys |-> SubSeq(Keys, 1, Len(vals)), values |-> vals] :
        vals \in SeqsUpTo(SampleAngles, MaxLen)}
    \cup {[kind |-> "array", keys |-> <<>>, values |-> vals] :
             vals \in SeqsUpTo(SampleAngles, MaxLen)}
Seeds == {None} \cup {[seed |-> k] : k \in 0..MaxSeed}

\* 0/1 permutation matrices of side n.
Perms(n) == {f \in [1..n -> 1..n] : \A a, b \in 1..n : f[a] = f[b] => a = b}
PermMat(f) ==
    [shape |-> <<Len(f), Len(f)>>,
     rows |-> [r \in 1..Len(f) |-> [c \in 1..Len(f) |-> IF f[r] = c THEN 1 ELSE 0]]]
PermMats == UNION {{PermMat(f) : f \in Perms(n)} : n \in 0..MaxPerm}

Calls ==
    {[fn |-> "_expand_topology", args |-> [topology |-> t, qreg |-> QuantumRegister(n, "q")]] :
        t \in Topologies, n \in 0..MaxReg}
    \cup {[fn |-> "s4_ansatz", args |-> [topology |-> t, qreg |-> q, params |-> p]] :
             t \in Topologies, q \in QregArgs, p \in ParamArgs}
    \cup {[fn |-> "_adj_flatten_repr", args |-> [adj |-> m, shape |-> sh]] :
             m \in EncoderMats, sh \in EncoderShapes}
    \cup {[fn |-> "ansatz", args |-> [adj1 |-> a, adj2 |-> b, topology |-> t]] :
             a \in AnsatzMats, b \in AnsatzMats, t \in AnsatzTopologies}
    \cup {[fn |-> "thetas_to_prob", args |-> [x |-> x]] : x \in Angles}
    \cup {[fn |-> "sample_exact_thetas", args |-> [v |-> v, n |-> n, seed |-> sd]] :
             v \in SampleValues, n \in 0..MaxN, sd \in Seeds}
    \cup {[fn |-> "perm_to_2line", args |-> [mat |-> m, inverse |-> b]] :
             m \in PermMats, b \in BOOLEAN}

(***************************************************************************)
(* The state machine.                                                      *)
(***************************************************************************)
Init ==
    /\ \E c \in Calls : fn = c.fn /\ args = c.args
    /\ result = NotCalled
    /\ prev = NotCalled
    /\ calls = 0
    /\ prob = <<>>

Return(r) ==
    /\ result' = r
    /\ prev' = result
    /\ calls' = calls + 1
    /\ UNCHANGED <<fn, args>>

ExpandTopology ==
    /\ fn = "_expand_topology" /\ calls = 0
    /\ Return(_expand_topology(args.topology, args.qreg))
    /\ UNCHANGED prob

S4Ansatz ==
    /\ fn = "s4_ansatz" /\ calls = 0
    /\ Return(s4_ansatz(args.topology, args.qreg, args.params))
    /\ UNCHANGED prob

AdjFlattenRepr ==
    /\ fn = "_adj_flatten_repr" /\ calls = 0
    /\ Return(_adj_flatten_repr(args.adj, args.shape))
    /\ UNCHANGED prob

Ansatz ==
    /\ fn = "ansatz" /\ calls = 0
    /\ Return(ansatz(args.adj1, args.adj2, args.topology))
    /\ UNCHANGED prob

ThetasToProb ==
    /\ fn = "thetas_to_prob" /\ calls = 0
    /\ Return(Ok(thetas_to_prob(args.x)))
    /\ UNCHANGED prob

\* With seed None the generator is seeded from fresh entropy on every call.
SampleExactThetas ==
    /\ fn = "sample_exact_thetas" /\ calls < MaxCalls
    /\ \E entropy \in 0..(MaxSeed + 1) :
          LET seed == IF args.seed = None THEN entropy ELSE args.seed.seed
          IN  /\ prob' = Uniform(seed, args.n, Len(args.v.values))
              /\ Return(sample_exact_thetas(args.v, args.n, prob'))

PermTo2Line ==
    /\ fn = "perm_to_2line" /\ calls = 0
    /\ Return(Ok(perm_to_2line(args.mat, args.inverse)))
    /\ UNCHANGED prob

Next ==
    \/ ExpandTopology
    \/ S4Ansatz
    \/ AdjFlattenRepr
    \/ Ansatz
    \/ ThetasToProb
    \/ SampleExactThetas
    \/ PermTo2Line

Spec == Init /\ [][Next]_vars

(***************************************************************************)
(* Vocabulary of the properties.                                           *)
(***************************************************************************)
Called(f) == fn = f /\ calls > 0
Returned(f) == Called(f) /\ IsOk(result)

IsSquare(mat) == Len(mat.shape) = 2 /\ mat.shape[1] = mat.shape[2]
IsPowerOfTwo(side) == \E k \in 0..side : Pow2(k) = side
LogOf(side) == CHOOSE k \in 0..side : Pow2(k) = side

QubitsOf(name, size) == [k \in 1..size |-> [reg |-> name, idx |-> k - 1]]
CountLabel(ops, label) == Cardinality({k \in 1..Len(ops) : ops[k].label = label})

(***************************************************************************)
(* C5. _expand_topology over a register of N >= 2 qubits: "linear" yields  *)
(* exactly the pairs (k, k+1), k = 0..N-2, in that order; "circular"       *)
(* yields the same list when N = 2 and the same list followed by (N-1, 0)  *)
(* when N > 2; any other string raises the unrecognized-topology error.    *)
(***************************************************************************)
ExpectedLinear(N) ==
    [k \in 1..(N - 1) |-> << [reg |-> "q", idx |-> k - 1], [reg |-> "q", idx |-> k] >>]
ExpectedWrap(N) == << [reg |-> "q", idx |-> N - 1], [reg |-> "q", idx |-> 0] >>

C5_ExpandTopology ==
    (Called("_expand_topology") /\ IsStr(args.topology) /\ args.qreg.size >= 2) =>
        LET N == args.qreg.size
            name == args.topology.str
        IN  /\ name = "linear" =>
                 IsOk(result) /\ result.value = ExpectedLinear(N)
            /\ (name = "circular" /\ N = 2) =>
                 IsOk(result) /\ result.value = ExpectedLinear(N)
            /\ (name = "circular" /\ N > 2) =>
                 IsOk(result) /\ result.value = Append(ExpectedLinear(N), ExpectedWrap(N))
            /\ name \notin {"linear", "circular"} =>
                 IsErr(result) /\ result.error = "ValueError: Unrecognized topology"

C5_Witness ==
    /\ Called("_expand_topology") /\ IsStr(args.topology)
    /\ args.topology.str = "circular" /\ args.qreg.size = 3
    /\ IsOk(result) /\ Len(result.value) = 3

(***************************************************************************)
(* C7. Whenever s4_ansatz returns, the returned parameter tensor has one   *)
(* row of 5 per pair of the expanded topology, and the circuit holds one   *)
(* block per pair, in topology order, built from that pair's row; a        *)
(* caller's tensor with another row count or row length makes the call     *)
(* fail with a validation error.                                           *)
(***************************************************************************)
BlockLen == Len(_s4_block(<<0, 0, 0, 0, 0>>).value)

\* The gates a block of the given row contributes on the pair, over the
\* register's qubit positions.
ExpectedBlock(row, pair) ==
    LET a == pair[1].idx
        b == pair[2].idx
        P(k) == <<row[k], 1>>
        H(q) == [label |-> "h", qs |-> <<q>>, body |-> <<>>]
    IN  << H(a), [label |-> "p", qs |-> <<a>>, body |-> P(1)], H(a),
           H(b), [label |-> "p", qs |-> <<b>>, body |-> P(2)],
           [label |-> "cp", qs |-> <<a, b>>, body |-> P(3)], H(b),
           H(a), [label |-> "cp", qs |-> <<b, a>>, body |-> P(4)], H(a),
           H(b), [label |-> "cp", qs |-> <<a, b>>, body |-> P(5)], H(b) >>

C7_ParamsPerEdge ==
    Called("s4_ansatz") =>
        LET topo == _expand_topology(args.topology, ResolveQreg(args.qreg))
        IN  /\ IsOk(result) =>
                 /\ IsOk(topo)
                 /\ result.value.params.shape = <<Len(topo.value), 5>>
                 /\ Len(result.value.circuit.ops) = 1
                 /\ LET body == result.value.circuit.ops[1].body
                    IN  /\ Len(body) = BlockLen * Len(topo.value)
                        /\ \A k \in 1..Len(topo.value) :
                             SubSeq(body, (k - 1) * BlockLen + 1, k * BlockLen)
                               = ExpectedBlock(result.value.params.rows[k], topo.value[k])
            /\ (/\ args.params # None
                /\ \/ Len(args.params.shape) # 2
                   \/ args.params.shape[Len(args.params.shape)] # 5
                   \/ (IsOk(topo) /\ args.params.shape[1] # Len(topo.value)))
               => /\ IsErr(result)
                  /\ IsOk(topo) => result.error = "AssertionError"

C7_Witness ==
    /\ Returned("s4_ansatz")
    /\ args.params # None
    /\ result.value.params.shape = <<2, 5>>
    /\ result.value.params = args.params

C7_WitnessMismatch ==
    /\ Called("s4_ansatz") /\ IsErr(result)
    /\ args.params # None /\ args.params.shape = <<3, 5>>
    /\ result.at = "s4_ansatz:len(params)"

(***************************************************************************)
(* C9. For an n x n matrix zero-extended to a power-of-two side M >= n     *)
(* (M = n when no shape is given) the diagonal has 2*M*M entries: the      *)
(* first M*M are +1, and the entry at M*M + r*M + c is -1 exactly when     *)
(* r < n, c < n and adj[r][c] rounds to non-zero.                          *)
(***************************************************************************)
\* A number in tenths rounds (ties to even) to non-zero: beyond one half.
RoundsToNonZero(x) == x > 5 \/ x < -5

TargetSide(a) == IF a.shape = NoShape THEN a.adj.shape[1] ELSE a.shape[1]

EncoderPre ==
    /\ Called("_adj_flatten_repr")
    /\ IsSquare(args.adj)
    /\ args.shape # NoShape => args.shape[1] = args.shape[2]
    /\ TargetSide(args) >= args.adj.shape[1]
    /\ IsPowerOfTwo(TargetSide(args))

C9_DiagonalLayout ==
    EncoderPre =>
        /\ IsOk(result)
        /\ LET M == TargetSide(args)
               n == args.adj.shape[1]
               diag == result.value.ops[1].body
           IN  /\ Len(diag) = 2 * M * M
               /\ \A k \in 1..(M * M) : diag[k] = 1
               /\ \A r \in 0..(M - 1) : \A c \in 0..(M - 1) :
                    diag[M * M + r * M + c + 1] =
                       IF r < n /\ c < n /\ RoundsToNonZero(args.adj.rows[r + 1][c + 1])
                       THEN -1 ELSE 1

\* A 2 x 2 matrix with an edge, extended to 4 x 4.
C9_Witness ==
    /\ EncoderPre /\ IsOk(result)
    /\ args.adj.shape = <<2, 2>> /\ args.shape = <<4, 4>>
    /\ args.adj.rows[2][1] = 10 /\ args.adj.rows[1][2] = 0
    /\ result.value.ops[1].body[16 + 4 + 0 + 1] = -1

(***************************************************************************)
(* C10. For a matrix of side N = 2^k, k >= 0, the diagonal operator acts   *)
(* on 2k+1 qubits, the assertion of _circ_qregs does not fail, and the     *)
(* registers are i of size k, j of size k, a of size 1, in that order; the *)
(* circuit ansatz returns has 2*log2(len(adj1)) + 1 qubits whatever the    *)
(* size of adj2.                                                           *)
(***************************************************************************)
C10_QubitCount ==
    /\ EncoderPre =>
          LET k == LogOf(TargetSide(args))
          IN  /\ IsOk(result)
              /\ Len(result.value.ops[1].qs) = 2 * k + 1
              /\ result.value.qregs = << [name |-> "i", size |-> k],
                                         [name |-> "j", size |-> k],
                                         [name |-> "a", size |-> 1] >>
              /\ result.value.ops[1].qs
                   = QubitsOf("i", k) \o QubitsOf("j", k) \o QubitsOf("a", 1)
    /\ (Called("ansatz") /\ IsErr(result)) => result.at # "_circ_qregs"
    /\ Returned("ansatz") =>
          LET k == LogOf(args.adj1.shape[1])
              qubits == UNION {{result.value.circuit.ops[o].qs[q] :
                                  q \in 1..Len(result.value.circuit.ops[o].qs)} :
                               o \in 1..Len(result.value.circuit.ops)}
          IN  /\ Len(CircQubits(result.value.circuit.qregs)) = 2 * k + 1
              /\ Cardinality(qubits) = 2 * k + 1

C10_Witness ==
    /\ Returned("ansatz")
    /\ args.adj1.shape = <<4, 4>> /\ args.adj2.shape = <<2, 2>>
    /\ Len(CircQubits(result.value.circuit.qregs)) = 5

(***************************************************************************)
(* C1. The operations of the circuit ansatz returns, in order: the         *)
(* Hadamard layer; if and only if the shapes differ, the inverse           *)
(* permutation ansatz on register i and on register j; the diagonal        *)
(* encoder of adj1; the permutation ansatz on i; the permutation ansatz on *)
(* j; the diagonal encoder of adj2 zero-extended to adj1's shape; the      *)
(* Hadamard layer. With equal shapes no inverse permutation ansatz appears.*)
(***************************************************************************)
Sketch(ops) == [k \in 1..Len(ops) |-> <<ops[k].label, ops[k].qs>>]

ExpectedH(k, n) ==
    [q \in 1..n |-> <<"h", << [reg |-> "i", idx |-> q - 1] >> >>]
    \o [q \in 1..n |-> <<"h", << [reg |-> "j", idx |-> q - 1] >> >>]
    \o << <<"h", << [reg |-> "a", idx |-> 0] >> >> >>

C1_OperationOrder ==
    Returned("ansatz") =>
        LET k == LogOf(args.adj1.shape[1])
            n == LogOf(args.adj2.shape[1])
            gisom == args.adj1.shape = args.adj2.shape
            ops == result.value.circuit.ops
            h == 2 * n + 1
            d == IF gisom THEN 0 ELSE 2
            all == QubitsOf("i", k) \o QubitsOf("j", k) \o QubitsOf("a", 1)
        IN  /\ Len(ops) = 2 * h + d + 4
            /\ SubSeq(Sketch(ops), 1, h) = ExpectedH(k, n)
            /\ ~gisom =>
                 {Sketch(ops)[h + 1], Sketch(ops)[h + 2]}
                   = { <<"PermAnsatzDg", QubitsOf("i", k)>>,
                       <<"PermAnsatzDg", QubitsOf("j", k)>> }
            /\ gisom <=> CountLabel(ops, "PermAnsatzDg") = 0
            /\ ops[h + d + 1] = _adj_flatten_repr(args.adj1, NoShape).value.ops[1]
            /\ Sketch(ops)[h + d + 2] = <<"PermAnsatz", QubitsOf("i", k)>>
            /\ Sketch(ops)[h + d + 3] = <<"PermAnsatz", QubitsOf("j", k)>>
            /\ ops[h + d + 4] = _adj_flatten_repr(args.adj2, args.adj1.shape).value.ops[1]
            /\ SubSeq(Sketch(ops), h + d + 5, 2 * h + d + 4) = ExpectedH(k, n)

C1_Witness ==
    /\ Returned("ansatz")
    /\ args.adj1.shape = <<4, 4>> /\ args.adj2.shape = <<2, 2>>
    /\ CountLabel(result.value.circuit.ops, "PermAnsatzDg") = 2

C1_WitnessSameShape ==
    /\ Returned("ansatz")
    /\ args.adj1.shape = args.adj2.shape
    /\ CountLabel(result.value.circuit.ops, "PermAnsatz") = 2

(***************************************************************************)
(* C2. As claimed: thetas_to_prob(x) is 0 at every non-negative integer    *)
(* multiple of pi and 1 at every odd multiple of pi/2.                     *)
(***************************************************************************)
IsMultipleOfPi(x) == x % AngleDen = 0
IsOddMultipleOfHalfPi(x) == x % HalfDen = 0 /\ (x \div HalfDen) % 2 = 1
One == AngleDen

C2_AsClaimed ==
    (Called("thetas_to_prob") /\ args.x >= 0) =>
        /\ IsMultipleOfPi(args.x) => result.value = 0
        /\ IsOddMultipleOfHalfPi(args.x) => result.value = One

(***************************************************************************)
(* C2, amended. thetas_to_prob(x) is 0 at every non-negative even multiple *)
(* of pi (0, 2 pi, ...), 1 at every odd multiple of pi (pi, 3 pi, ...),    *)
(* and 1/2 at every odd multiple of pi/2.                                  *)
(***************************************************************************)
C2_ParityOfPi ==
    (Called("thetas_to_prob") /\ args.x >= 0) =>
        /\ (IsMultipleOfPi(args.x) /\ (args.x \div AngleDen) % 2 = 0) => result.value = 0
        /\ (IsMultipleOfPi(args.x) /\ (args.x \div AngleDen) % 2 = 1) => result.value = One
        /\ IsOddMultipleOfHalfPi(args.x) => 2 * result.value = One

C2_Witness ==
    /\ Called("thetas_to_prob")
    /\ args.x = 3 * AngleDen
    /\ result.value = One

(***************************************************************************)
(* C3. As claimed: sample_exact_thetas accepts a named mapping, returning  *)
(* n named mappings with the keys of v, and accepts a plain array,         *)
(* completing without error and returning the raw sampled array.           *)
(***************************************************************************)
RawSample(v, n, draws) ==
    [i \in 1..n |-> [j \in 1..Len(v.values) |->
        IF draws[i][j] < thetas_to_prob(v.values[j]) THEN Pi ELSE 0]]

C3_BothInputKinds ==
    Called("sample_exact_thetas") =>
        /\ IsOk(result)
        /\ IsDict(args.v) =>
              /\ Len(result.value) = args.n
              /\ \A i \in 1..args.n : result.value[i].keys = args.v.keys
        /\ ~IsDict(args.v) => result.value = RawSample(args.v, args.n, prob)

RejectedByValidation ==
    IsErr(result) /\ result.at = "_pow2_shaped_mat_validation:pow2"

C6_PowerOfTwoOnly ==
    (Called("ansatz") /\ IsSquare(args.adj1) /\ IsSquare(args.adj2)) =>
        /\ ~IsPowerOfTwo(args.adj1.shape[1]) => RejectedByValidation
        /\ (IsPowerOfTwo(args.adj1.shape[1]) /\ ~IsPowerOfTwo(args.adj2.shape[1]))
             => RejectedByValidation
        /\ (IsPowerOfTwo(args.adj1.shape[1]) /\ IsPowerOfTwo(args.adj2.shape[1]))
             => ~RejectedByValidation

(***************************************************************************)
(* C8. For an n x n permutation matrix P, perm_to_2line(P) has the top row *)
(* 0..n-1 ascending and its columns (top, bottom) rebuild P, a column      *)
(* standing for the entry of P in row bottom and column top; and           *)
(* perm_to_2line(P, inverse=True) is perm_to_2line(P) with its two rows    *)
(* swapped and its columns re-sorted by the new top row.                   *)
(***************************************************************************)
Rebuild(sym, n) ==
    [shape |-> <<n, n>>,
     rows |-> [r \in 1..n |-> [c \in 1..n |->
        IF \E k \in 1..sym.shape[2] : sym.rows[1][k] = c - 1 /\ sym.rows[2][k] = r - 1
        THEN 1 ELSE 0]]]

\* The rows swapped, then the columns ordered by the new top row.
SwapAndSort(sym) ==
    LET n == sym.shape[2]
        at(t) == CHOOSE k \in 1..n : sym.rows[2][k] = t
    IN  [shape |-> sym.shape,
         rows |-> << [k \in 1..n |-> sym.rows[2][at(k - 1)]],
                     [k \in 1..n |-> sym.rows[1][at(k - 1)]] >>]

C8_TwoLineRoundTrip ==
    Called("perm_to_2line") =>
        LET n == args.mat.shape[1]
        IN  /\ result.value.shape = <<2, n>>
            /\ result.value.rows[1] = [k \in 1..n |-> k - 1]
            /\ ~args.inverse => Rebuild(result.value, n) = args.mat
            /\ args.inverse =>
                  result.value = SwapAndSort(perm_to_2line(args.mat, FALSE))

\* A permutation that is not its own inverse, with inverse=True.
C8_Witness ==
    /\ Called("perm_to_2line") /\ args.inverse
    /\ args.mat.shape = <<3, 3>>
    /\ result.value.rows[2] # perm_to_2line(args.mat, FALSE).rows[2]

====
